---- MODULE Spec2Model ----
(***************************************************************************)
(* Model of the sqlparser package: the Scanner of lexer.go and the         *)
(* recursive-descent Parser of parser.go.                                  *)
(*                                                                         *)
(* A character (Go rune) is a one-character string; the rune 0 is the      *)
(* string "NUL" and the backtick is the string "BQ".  A Go string is the   *)
(* sequence of its characters.  A Go map is the function from its keys to  *)
(* its values.                                                             *)
(***************************************************************************)
EXTENDS Integers, Sequences, FiniteSets, TLC

VARIABLES
    input,    \* the characters held by the io.Reader given to NewParser / NewScanner
    p,        \* the Parser: its Scanner's reader p.r and its pushback buffer p.buf
    schema,   \* Parse: the local variable schema
    err,      \* Parse: the error it returns
    iter,     \* Parse: the number of iterations of its for loop that ended with a table
    status,   \* where the call is: "running", "returned", or "hang" (a Scan call that never returns)
    ret,      \* the (tok, lit) pair returned by the latest Scan / scanIgnoreWhitespace call
    meta      \* how the input was put together (not read by the program)

vars == <<input, p, schema, err, iter, status, ret, meta>>

----------------------------------------------------------------------------
(* lexer.go: tokens *)

ILLEGAL == 0
EOF == 1
ANNOTATION == 2
WS == 3
STRING_TOK == 4
IDENT == 5
COMMA == 6
BACKTICK == 7
SEMI_COLON == 8
OPEN_PAREN == 9
CLOSE_PAREN == 10
SIZE == 11
BIT == 12
TINYINT == 13
SMALLINT == 14
INT == 15
BIGINT == 16
FLOAT == 17
DOUBLE == 18
LONGTEXT == 19
MEDIUMTEXT == 20
VARCHAR == 21
DATE == 22
TIME == 23
DATETIME == 24
TIMESTAMP == 25
DROP == 26
LOCK == 27
UNLOCK == 28
TABLES == 29
WRITE == 30
IF_TOK == 31
EXISTS == 32
EQUAL == 33
CREATE == 34
TABLE == 35
DEFAULT == 36
NOT == 37
NULL == 38
COMMENT == 39
KEY == 40
UNIQUE == 41
CONSTRAINT == 42
PRIMARY == 43
FOREIGN == 44
REFERENCES == 45
AUTO_INCREMENT == 46
CURRENT_TIMESTAMP == 47

eof == "NUL"

LowerCase == <<"a","b","c","d","e","f","g","h","i","j","k","l","m","n","o","p","q","r","s","t","u","v","w","x","y","z">>
UpperCase == <<"A","B","C","D","E","F","G","H","I","J","K","L","M","N","O","P","Q","R","S","T","U","V","W","X","Y","Z">>

isWhitespace(ch) == ch = " " \/ ch = "\t" \/ ch = "\n"

Letters == {LowerCase[i] : i \in 1..26} \cup {UpperCase[i] : i \in 1..26}

isLetter(ch) == ch \in Letters

isDigit(ch) == ch \in {"0","1","2","3","4","5","6","7","8","9"}

isString(ch) == ch = "'"

\* strings.ToUpper on the ASCII strings scanIdent builds
ToUpper(s) ==
    [i \in 1..Len(s) |->
        IF \E j \in 1..26 : LowerCase[j] = s[i]
        THEN UpperCase[CHOOSE j \in 1..26 : LowerCase[j] = s[i]]
        ELSE s[i]]

\* f[x] for the only x in the domain of f.  Bind([x \in {e} |-> body]) is
\* body with x naming the value of e: a result of a call, used more than once
Bind(f) == f[CHOOSE x \in DOMAIN f : TRUE]

----------------------------------------------------------------------------
(* lexer.go: the reader.  r.pos characters of input are consumed; r.last   *)
(* says that bufio's lastRuneSize is >= 0, which only a successful         *)
(* ReadRune makes true and which UnreadRune and a failed ReadRune reset.   *)

NewScanner == [pos |-> 0, last |-> FALSE]

\* read: ReadRune, eof on error.  end tells the error case from a rune 0.
read(r) ==
    IF r.pos < Len(input)
    THEN [ch |-> input[r.pos + 1], end |-> FALSE, r |-> [pos |-> r.pos + 1, last |-> TRUE]]
    ELSE [ch |-> eof, end |-> TRUE, r |-> [pos |-> r.pos, last |-> FALSE]]

\* unread: UnreadRune, its error dropped: a second UnreadRune in a row does nothing
unread(r) ==
    IF r.last THEN [pos |-> r.pos - 1, last |-> FALSE] ELSE r

\* what a Scan call gives: the token, its literal, the reader after the call;
\* hang = the call never returns (r is then the reader when the loop stopped advancing)
Token(tok, lit, r) == [tok |-> tok, lit |-> lit, r |-> r, hang |-> FALSE]

Diverge(r) == [tok |-> ILLEGAL, lit |-> <<>>, r |-> r, hang |-> TRUE]

\* The loops of scanWhitespace, scanDigit and scanIdent read on while the
\* characters are of one class.  WhitespaceRun, DigitRun, IdentRun: how many
\* characters after position from the loop accepts.
WhitespaceRun(from) ==
    CHOOSE n \in 0..(Len(input) - from) :
        /\ \A i \in 1..n : isWhitespace(input[from + i])
        /\ from + n < Len(input) => ~isWhitespace(input[from + n + 1])

DigitRun(from) ==
    CHOOSE n \in 0..(Len(input) - from) :
        /\ \A i \in 1..n : isDigit(input[from + i])
        /\ from + n < Len(input) => ~isDigit(input[from + n + 1])

\* the characters the loop of scanIdent accepts
isIdentChar(ch) == isLetter(ch) \/ isDigit(ch) \/ ch = "_"

IdentRun(from) ==
    CHOOSE n \in 0..(Len(input) - from) :
        /\ \A i \in 1..n : isIdentChar(input[from + i])
        /\ from + n < Len(input) => ~isIdentChar(input[from + n + 1])

\* the reader when such a loop, started at r, ends after n accepted
\* characters: on a failed read at the end of the input; on a rune 0, which is
\* `ch == eof` and is not unread; or on another character, which is unread
AfterRun(r, n) ==
    IF r.pos + n = Len(input) THEN [pos |-> Len(input), last |-> FALSE]
    ELSE IF input[r.pos + n + 1] = eof THEN [pos |-> r.pos + n + 1, last |-> TRUE]
    ELSE [pos |-> r.pos + n, last |-> FALSE]

scanWhitespaceLoop(r, buf) ==
    Token(WS,
          buf \o SubSeq(input, r.pos + 1, r.pos + WhitespaceRun(r.pos)),
          AfterRun(r, WhitespaceRun(r.pos)))

scanWhitespace(r) ==
    Bind([c \in {read(r)} |->
        scanWhitespaceLoop(c.r, <<c.ch>>)])

scanDigitLoop(r, buf) ==
    Token(SIZE,
          buf \o SubSeq(input, r.pos + 1, r.pos + DigitRun(r.pos)),
          AfterRun(r, DigitRun(r.pos)))

scanDigit(r) ==
    Bind([c \in {read(r)} |->
        scanDigitLoop(c.r, <<c.ch>>)])

\* the position of the first character c after position from, 0 if there is none
FirstAt(from, c) ==
    IF \E i \in (from + 1)..Len(input) : input[i] = c
    THEN CHOOSE i \in (from + 1)..Len(input) :
            /\ input[i] = c
            /\ \A j \in (from + 1)..(i - 1) : input[j] # c
    ELSE 0

\* readString: the loop reads up to the first character c, appending what it
\* reads to buf.  It has no exit on a failed read: without a c in the rest of
\* the input it reads eof for ever
readString(r, c, tok, buf) ==
    IF FirstAt(r.pos, c) = 0
    THEN Diverge([pos |-> Len(input), last |-> FALSE])
    ELSE Token(tok,
               buf \o SubSeq(input, r.pos + 1, FirstAt(r.pos, c) - 1),
               [pos |-> FirstAt(r.pos, c), last |-> TRUE])

scanString(r) ==
    Bind([ch \in {read(r)} |->
            CASE ch.ch = "BQ" -> readString(ch.r, "BQ", IDENT, <<>>)
              [] ch.ch = "'" -> readString(ch.r, "'", STRING_TOK, <<>>)
              [] OTHER -> Token(ILLEGAL, <<ch.ch>>, ch.r)])

RECURSIVE scanInlineComment(_)
scanInlineComment(r) ==
    IF read(r).ch = eof THEN Token(ILLEGAL, <<>>, read(r).r)
    ELSE IF read(r).ch = "*"
         THEN IF read(read(r).r).ch = "/" THEN Token(ANNOTATION, <<>>, read(read(r).r).r)
              ELSE scanInlineComment(read(read(r).r).r)
         ELSE scanInlineComment(read(r).r)

Keyword(u) ==
    CASE u = <<"D","R","O","P">> -> DROP
      [] u = <<"I","F">> -> IF_TOK
      [] u = <<"E","X","I","S","T","S">> -> EXISTS
      [] u = <<"L","O","C","K">> -> LOCK
      [] u = <<"U","N","L","O","C","K">> -> UNLOCK
      [] u = <<"T","A","B","L","E","S">> -> TABLES
      [] u = <<"W","R","I","T","E">> -> WRITE
      [] u = <<"C","R","E","A","T","E">> -> CREATE
      [] u = <<"T","A","B","L","E">> -> TABLE
      [] u = <<"N","O","T">> -> NOT
      [] u = <<"N","U","L","L">> -> NULL
      [] u = <<"D","E","F","A","U","L","T">> -> DEFAULT
      [] u = <<"C","O","M","M","E","N","T">> -> COMMENT
      [] u = <<"K","E","Y">> -> KEY
      [] u = <<"U","N","I","Q","U","E">> -> UNIQUE
      [] u = <<"C","O","N","S","T","R","A","I","N","T">> -> CONSTRAINT
      [] u = <<"P","R","I","M","A","R","Y">> -> PRIMARY
      [] u = <<"F","O","R","E","I","G","N">> -> FOREIGN
      [] u = <<"R","E","F","E","R","E","N","C","E","S">> -> REFERENCES
      [] u = <<"A","U","T","O","_","I","N","C","R","E","M","E","N","T">> -> AUTO_INCREMENT
      [] u = <<"C","U","R","R","E","N","T","_","T","I","M","E","S","T","A","M","P">> -> CURRENT_TIMESTAMP
      [] u = <<"B","I","T">> -> BIT
      [] u = <<"T","I","N","Y","I","N","T">> -> TINYINT
      [] u = <<"S","M","A","L","L","I","N","T">> -> SMALLINT
      [] u = <<"I","N","T">> -> INT
      [] u = <<"B","I","G","I","N","T">> -> BIGINT
      [] u = <<"F","L","O","A","T">> -> FLOAT
      [] u = <<"D","O","U","B","L","E">> -> DOUBLE
      [] u = <<"V","A","R","C","H","A","R">> -> VARCHAR
      [] u = <<"L","O","N","G","T","E","X","T">> -> LONGTEXT
      [] u = <<"M","E","D","I","U","M","T","E","X","T">> -> MEDIUMTEXT
      [] u = <<"D","A","T","E">> -> DATE
      [] u = <<"T","I","M","E">> -> TIME
      [] u = <<"D","A","T","E","T","I","M","E">> -> DATETIME
      [] u = <<"T","I","M","E","S","T","A","M","P">> -> TIMESTAMP
      [] OTHER -> IDENT

\* what scanIdent returns for the characters in buf
IdentToken(buf, r) == Token(Keyword(ToUpper(buf)), buf, r)

scanIdentLoop(r, buf) ==
    IdentToken(buf \o SubSeq(input, r.pos + 1, r.pos + IdentRun(r.pos)),
               AfterRun(r, IdentRun(r.pos)))

Scanner_scanIdent(r) ==
    Bind([c \in {read(r)} |->
        scanIdentLoop(c.r, <<c.ch>>)])

\* the loop of the "--" case with an exit at the end of the input
scanLineComment_StopsAtEof(r) ==
    IF FirstAt(r.pos, "\n") = 0
    THEN Token(ILLEGAL, <<>>, [pos |-> Len(input), last |-> FALSE])
    ELSE Token(ANNOTATION, <<>>, [pos |-> FirstAt(r.pos, "\n"), last |-> TRUE])

\* the loop of the "--" case: it reads up to the first newline and has no
\* exit on a failed read
scanLineComment(r) ==
    IF FirstAt(r.pos, "\n") = 0
    THEN Diverge([pos |-> Len(input), last |-> FALSE])
    ELSE Token(ANNOTATION, <<>>, [pos |-> FirstAt(r.pos, "\n"), last |-> TRUE])

Scan(r) ==
    Bind([ch \in {read(r)} |->
            IF isWhitespace(ch.ch) THEN scanWhitespace(unread(ch.r))
            ELSE IF isLetter(ch.ch) THEN Scanner_scanIdent(unread(ch.r))
            ELSE IF isDigit(ch.ch) THEN scanDigit(unread(ch.r))
            ELSE IF ch.ch = "'" \/ ch.ch = "BQ" THEN scanString(unread(ch.r))
            ELSE IF ch.ch = "/"
                 THEN Bind([c \in {read(ch.r)} |->
                              IF c.ch = "*" THEN scanInlineComment(unread(unread(c.r)))
                              ELSE Token(ILLEGAL, <<ch.ch>>, unread(c.r))])
            ELSE CASE ch.ch = eof -> Token(EOF, <<"E","O","F">>, ch.r)
                   [] ch.ch = "," -> Token(COMMA, <<",">>, ch.r)
                   [] ch.ch = "(" -> Token(OPEN_PAREN, <<"(">>, ch.r)
                   [] ch.ch = ")" -> Token(CLOSE_PAREN, <<")">>, ch.r)
                   [] ch.ch = ";" -> Token(SEMI_COLON, <<";">>, ch.r)
                   [] ch.ch = "=" -> Token(EQUAL, <<"=">>, ch.r)
                   [] ch.ch = "-" -> Bind([c \in {read(ch.r)} |->
                                             IF c.ch = "-" THEN scanLineComment(c.r)
                                             ELSE Token(ILLEGAL, <<ch.ch>>, c.r)])
                   [] OTHER -> Token(ILLEGAL, <<ch.ch>>, ch.r)])

----------------------------------------------------------------------------
(* parser.go: the data model *)

NoErr == "nil"

\* Column.Default is an interface{}: nil, or a string
NilDefault == [nil |-> TRUE, str |-> <<>>]

StringDefault(s) == [nil |-> FALSE, str |-> s]

\* &Column{}: the zero value
NewColumn ==
    [Name |-> <<>>, Type |-> "", Size |-> 0, Default |-> NilDefault,
     Comment |-> <<>>, Nullable |-> FALSE, AutoIncr |-> FALSE]

\* &Constraint{}: the zero value
NewConstraint == [Index |-> <<>>, ForeignKey |-> <<>>, TableName |-> <<>>, ColumnName |-> <<>>]

\* make(map[...]...)
EmptyMap == <<>>

\* m[k] = v
Put(m, k, v) == [x \in DOMAIN m \cup {k} |-> IF x = k THEN v ELSE m[x]]

\* the Table that parse starts from
NewTable ==
    [Name |-> <<>>, Columns |-> EmptyMap, PrimaryKey |-> <<>>, UniqueKeys |-> EmptyMap,
     Keys |-> EmptyMap, Constraints |-> EmptyMap, Extras |-> EmptyMap]

\* var Type, as init fills it
Type(tok) ==
    CASE tok = BIT -> "bit"
      [] tok = TINYINT -> "tinyint"
      [] tok = SMALLINT -> "smallint"
      [] tok = INT -> "int"
      [] tok = BIGINT -> "bigint"
      [] tok = FLOAT -> "float"
      [] tok = DOUBLE -> "double"
      [] tok = VARCHAR -> "varchar"
      [] tok = LONGTEXT -> "longtext"
      [] tok = MEDIUMTEXT -> "mediumtext"
      [] tok = DATE -> "date"
      [] tok = TIME -> "time"
      [] tok = DATETIME -> "datetime"
      [] tok = TIMESTAMP -> "timestamp"
      [] OTHER -> ""

DigitValue(ch) == CHOOSE d \in 0..9 : <<"0","1","2","3","4","5","6","7","8","9">>[d + 1] = ch

\* strconv.Atoi on the digits of a SIZE literal (values within int)
RECURSIVE Atoi(_)
Atoi(s) ==
    IF s = <<>> THEN 0
    ELSE 10 * Atoi(SubSeq(s, 1, Len(s) - 1)) + DigitValue(s[Len(s)])

----------------------------------------------------------------------------
(* parser.go: the token primitives.  p.hang records that a Scan call of    *)
(* this Parser did not return; nothing after such a call is executed, and  *)
(* the operators below are then fed EOF only to make them end.             *)

\* p.hist is not a field of Parser: it records how scan and unscan were used
\* (last: the pair the latest scan call returned; replayed: a scan call
\* returned the buffer; twice: unscan was called while a token was already
\* pushed back; stale: a replayed pair was not the latest one returned)
NewParser ==
    [r |-> NewScanner, buf |-> [tok |-> ILLEGAL, lit |-> <<>>, n |-> 0], hang |-> FALSE,
     hist |-> [last |-> <<ILLEGAL, <<>>>>, replayed |-> FALSE, twice |-> FALSE, stale |-> FALSE]]

\* scan whose fresh token is not stored in the buffer
scan_BufferNotStored(q) ==
    IF q.buf.n # 0
    THEN [tok |-> q.buf.tok, lit |-> q.buf.lit,
          p |-> [q EXCEPT !.buf.n = 0,
                          !.hist.replayed = TRUE,
                          !.hist.stale = @ \/ <<q.buf.tok, q.buf.lit>> # q.hist.last,
                          !.hist.last = <<q.buf.tok, q.buf.lit>>]]
    ELSE IF q.hang
    THEN [tok |-> EOF, lit |-> <<>>, p |-> q]
    ELSE Bind([s \in {Scan(q.r)} |->
                 IF s.hang
                 THEN [tok |-> EOF, lit |-> <<>>,
                       p |-> [q EXCEPT !.r = s.r, !.hang = TRUE,
                                       !.buf = [tok |-> EOF, lit |-> <<>>, n |-> 0]]]
                 ELSE [tok |-> s.tok, lit |-> s.lit,
                       p |-> [q EXCEPT !.r = s.r, !.hist.last = <<s.tok, s.lit>>]]])

scan(q) ==
    IF q.buf.n # 0
    THEN [tok |-> q.buf.tok, lit |-> q.buf.lit,
          p |-> [q EXCEPT !.buf.n = 0,
                          !.hist.replayed = TRUE,
                          !.hist.stale = @ \/ <<q.buf.tok, q.buf.lit>> # q.hist.last,
                          !.hist.last = <<q.buf.tok, q.buf.lit>>]]
    ELSE IF q.hang
    THEN [tok |-> EOF, lit |-> <<>>, p |-> q]
    ELSE Bind([s \in {Scan(q.r)} |->
                 IF s.hang
                 THEN [tok |-> EOF, lit |-> <<>>,
                       p |-> [q EXCEPT !.r = s.r, !.hang = TRUE,
                                       !.buf = [tok |-> EOF, lit |-> <<>>, n |-> 0]]]
                 ELSE [tok |-> s.tok, lit |-> s.lit,
                       p |-> [q EXCEPT !.r = s.r, !.buf = [tok |-> s.tok, lit |-> s.lit, n |-> 0],
                                       !.hist.last = <<s.tok, s.lit>>]]])

unscan(q) == [q EXCEPT !.buf.n = 1, !.hist.twice = @ \/ (~q.hang /\ q.buf.n = 1)]

scanIgnoreWhitespace(q) ==
    Bind([t \in {scan(q)} |->
        IF t.tok = WS \/ t.tok = ANNOTATION THEN scan(t.p) ELSE t])

scanIdent(q) ==
    Bind([t \in {scanIgnoreWhitespace(q)} |->
        IF t.tok # IDENT THEN [tok |-> ILLEGAL, lit |-> t.lit, p |-> t.p] ELSE t])

\* scanType that keeps the token read after a type without size
scanType_NoUnscan(q) ==
    Bind([t \in {scanIgnoreWhitespace(q)} |->
            IF t.tok >= BIT /\ t.tok <= TIMESTAMP
            THEN Bind([t1 \in {scanIgnoreWhitespace(t.p)} |->
                         IF t1.tok # OPEN_PAREN
                         THEN [type |-> Type(t.tok), size |-> 0, err |-> NoErr, p |-> t1.p]
                         ELSE Bind([t2 \in {scanIgnoreWhitespace(t1.p)} |->
                                      Bind([t3 \in {scanIgnoreWhitespace(t2.p)} |->
                                              IF t2.tok # SIZE \/ t3.tok # CLOSE_PAREN
                                              THEN [type |-> "", size |-> 0,
                                                    err |-> "expected type(integer)", p |-> t3.p]
                                              ELSE [type |-> Type(t.tok), size |-> Atoi(t2.lit),
                                                    err |-> NoErr, p |-> t3.p]])])])
            ELSE [type |-> "", size |-> 0, err |-> "expected type", p |-> t.p]])

scanType(q) ==
    Bind([t \in {scanIgnoreWhitespace(q)} |->
            IF t.tok >= BIT /\ t.tok <= TIMESTAMP
            THEN Bind([t1 \in {scanIgnoreWhitespace(t.p)} |->
                         IF t1.tok # OPEN_PAREN
                         THEN [type |-> Type(t.tok), size |-> 0, err |-> NoErr, p |-> unscan(t1.p)]
                         ELSE Bind([t2 \in {scanIgnoreWhitespace(t1.p)} |->
                                      Bind([t3 \in {scanIgnoreWhitespace(t2.p)} |->
                                              IF t2.tok # SIZE \/ t3.tok # CLOSE_PAREN
                                              THEN [type |-> "", size |-> 0,
                                                    err |-> "expected type(integer)", p |-> t3.p]
                                              ELSE [type |-> Type(t.tok), size |-> Atoi(t2.lit),
                                                    err |-> NoErr, p |-> t3.p]])])])
            ELSE [type |-> "", size |-> 0, err |-> "expected type", p |-> t.p]])

scanDefault(q) ==
    Bind([t \in {scanIgnoreWhitespace(q)} |->
            IF t.tok # DEFAULT
            THEN [val |-> <<>>, err |-> "expected DEFAULT", p |-> t.p]
            ELSE Bind([t1 \in {scanIgnoreWhitespace(t.p)} |->
                         CASE t1.tok = NULL -> [val |-> <<"n","u","l","l">>, err |-> NoErr, p |-> t1.p]
                           [] t1.tok = CURRENT_TIMESTAMP ->
                                [val |-> <<"c","u","r","r","e","n","t","_","t","i","m","e","s","t","a","m","p">>,
                                 err |-> NoErr, p |-> t1.p]
                           [] t1.tok = STRING_TOK -> [val |-> t1.lit, err |-> NoErr, p |-> t1.p]
                           [] OTHER -> [val |-> <<>>, err |-> "expected NULL or value", p |-> t1.p]])])

ColumnError(e, q) == [column |-> NewColumn, err |-> e, p |-> q]

\* the for loop of scanColumn
RECURSIVE scanColumnClauses(_, _)
scanColumnClauses(q, column) ==
    Bind([t \in {scanIgnoreWhitespace(q)} |->
            CASE t.tok = DEFAULT ->
                    Bind([d \in {scanDefault(unscan(t.p))} |->
                            IF d.err # NoErr THEN ColumnError(d.err, d.p)
                            ELSE scanColumnClauses(d.p,
                                    [column EXCEPT !.Default = StringDefault(d.val),
                                                   !.Nullable = (d.val = <<"n","u","l","l">>)])])
              [] t.tok = NULL -> scanColumnClauses(t.p, [column EXCEPT !.Nullable = TRUE])
              [] t.tok = NOT ->
                    Bind([t1 \in {scanIgnoreWhitespace(t.p)} |->
                            IF t1.tok # NULL THEN ColumnError("expected NULL", t1.p)
                            ELSE scanColumnClauses(t1.p, [column EXCEPT !.Nullable = FALSE])])
              [] t.tok = COMMENT ->
                    Bind([t1 \in {scanIgnoreWhitespace(t.p)} |->
                            IF t1.tok = STRING_TOK
                            THEN scanColumnClauses(t1.p, [column EXCEPT !.Comment = t1.lit])
                            ELSE ColumnError("expected 'comment'", t1.p)])
              [] t.tok = AUTO_INCREMENT -> scanColumnClauses(t.p, [column EXCEPT !.AutoIncr = TRUE])
              [] t.tok = COMMA \/ t.tok = CLOSE_PAREN ->
                    [column |-> column, err |-> NoErr, p |-> unscan(t.p)]
              [] t.tok = EOF -> ColumnError("unexpected EOF", t.p)
              [] OTHER -> ColumnError("expected column constraint", t.p)])

scanColumn(q) ==
    Bind([t \in {scanIdent(q)} |->
            IF t.tok # IDENT THEN ColumnError("expected ident", t.p)
            ELSE Bind([ty \in {scanType(t.p)} |->
                         IF ty.err # NoErr THEN ColumnError(ty.err, ty.p)
                         ELSE scanColumnClauses(ty.p,
                                 [NewColumn EXCEPT !.Name = t.lit, !.Type = ty.type, !.Size = ty.size])])])

scanParenIdent(q) ==
    Bind([t \in {scanIgnoreWhitespace(q)} |->
            IF t.tok # OPEN_PAREN THEN [tok |-> ILLEGAL, lit |-> t.lit, p |-> t.p]
            ELSE Bind([t0 \in {scanIgnoreWhitespace(t.p)} |->
                         IF t0.tok = IDENT
                         THEN Bind([t1 \in {scanIgnoreWhitespace(t0.p)} |->
                                      IF t1.tok # CLOSE_PAREN
                                      THEN [tok |-> ILLEGAL, lit |-> t0.lit \o t1.lit, p |-> t1.p]
                                      ELSE [tok |-> t0.tok, lit |-> t0.lit, p |-> t1.p]])
                         ELSE [tok |-> ILLEGAL, lit |-> <<>>, p |-> t0.p]])])

scanPrimaryKey(q) ==
    Bind([t1 \in {scanIgnoreWhitespace(q)} |->
            Bind([t2 \in {scanIgnoreWhitespace(t1.p)} |->
                    IF t1.tok # PRIMARY \/ t2.tok # KEY
                    THEN [key |-> <<>>, err |-> "expected PRIMARY KEY", p |-> t2.p]
                    ELSE Bind([t \in {scanIgnoreWhitespace(t2.p)} |->
                                 IF t.tok = OPEN_PAREN
                                 THEN Bind([pi \in {scanParenIdent(unscan(t.p))} |->
                                              IF pi.tok # IDENT
                                              THEN [key |-> <<>>, err |-> "expected ident", p |-> pi.p]
                                              ELSE [key |-> pi.lit, err |-> NoErr, p |-> pi.p]])
                                 ELSE Bind([id \in {scanIdent(t.p)} |->
                                              IF id.tok # IDENT
                                              THEN [key |-> <<>>, err |-> "expected ident", p |-> id.p]
                                              ELSE [key |-> id.lit, err |-> NoErr, p |-> id.p]])])])])

KeyError(e, q) == [index |-> <<>>, column |-> <<>>, err |-> e, p |-> q]

\* scanKey without the bare-identifier form of the column
scanKey_ParenOnly(q) ==
    Bind([t \in {scanIgnoreWhitespace(q)} |->
            IF t.tok # KEY THEN KeyError("expected KEY", t.p)
            ELSE Bind([ti \in {scanIgnoreWhitespace(t.p)} |->
                         IF ti.tok # IDENT THEN KeyError("expected index", ti.p)
                         ELSE Bind([tc \in {scanIgnoreWhitespace(ti.p)} |->
                                      IF tc.tok = OPEN_PAREN
                                      THEN Bind([pi \in {scanParenIdent(unscan(tc.p))} |->
                                                   IF pi.tok # IDENT THEN KeyError("expected ", pi.p)
                                                   ELSE [index |-> ti.lit, column |-> pi.lit,
                                                         err |-> NoErr, p |-> pi.p]])
                                      ELSE KeyError("expected ident", tc.p)])])])

scanKey(q) ==
    Bind([t \in {scanIgnoreWhitespace(q)} |->
            IF t.tok # KEY THEN KeyError("expected KEY", t.p)
            ELSE Bind([ti \in {scanIgnoreWhitespace(t.p)} |->
                         IF ti.tok # IDENT THEN KeyError("expected index", ti.p)
                         ELSE Bind([tc \in {scanIgnoreWhitespace(ti.p)} |->
                                      IF tc.tok = IDENT
                                      THEN [index |-> ti.lit, column |-> tc.lit, err |-> NoErr, p |-> tc.p]
                                      ELSE IF tc.tok = OPEN_PAREN
                                      THEN Bind([pi \in {scanParenIdent(unscan(tc.p))} |->
                                                   IF pi.tok # IDENT THEN KeyError("expected ", pi.p)
                                                   ELSE [index |-> ti.lit, column |-> pi.lit,
                                                         err |-> NoErr, p |-> pi.p]])
                                      ELSE KeyError("expected ident", tc.p)])])])

ConstraintError(e, q) == [constraint |-> NewConstraint, err |-> e, p |-> q]

scanConstraint(q) ==
    Bind([t \in {scanIgnoreWhitespace(q)} |->
         IF t.tok # CONSTRAINT THEN ConstraintError("expected CONSTRAINT", t.p)
         ELSE
         Bind([idx \in {scanIdent(t.p)} |->
              IF idx.tok # IDENT THEN ConstraintError("expected ident", idx.p)
              ELSE
              Bind([t1 \in {scanIgnoreWhitespace(idx.p)} |->
                   Bind([t2 \in {scanIgnoreWhitespace(t1.p)} |->
                        IF t1.tok # FOREIGN \/ t2.tok # KEY
                        THEN ConstraintError("expected FOREIGN KEY", t2.p)
                        ELSE
                        Bind([fk \in {scanParenIdent(t2.p)} |->
                             IF fk.tok # IDENT THEN ConstraintError("expected ident", fk.p)
                             ELSE
                             Bind([rf \in {scanIgnoreWhitespace(fk.p)} |->
                                  IF rf.tok # REFERENCES
                                  THEN ConstraintError("expected REFERENCES", rf.p)
                                  ELSE
                                  Bind([tn \in {scanIdent(rf.p)} |->
                                       IF tn.tok # IDENT
                                       THEN ConstraintError("expected table_name", tn.p)
                                       ELSE
                                       Bind([cn \in {scanParenIdent(tn.p)} |->
                                            IF cn.tok # IDENT
                                            THEN ConstraintError("expected (column_name)", cn.p)
                                            ELSE [constraint |->
                                                    [Index |-> idx.lit, ForeignKey |-> fk.lit,
                                                     TableName |-> tn.lit, ColumnName |-> cn.lit],
                                                  err |-> NoErr, p |-> cn.p]])])])])])])])])

scanKV(q) ==
    Bind([t \in {scanIgnoreWhitespace(q)} |->
            Bind([t1 \in {scanIgnoreWhitespace(t.p)} |->
                    Bind([t2 \in {scanIgnoreWhitespace(t1.p)} |->
                            IF (t.tok # IDENT /\ t.tok # AUTO_INCREMENT) \/ t1.tok # EQUAL
                               \/ (t2.tok # IDENT /\ t2.tok # STRING_TOK /\ t2.tok # SIZE)
                            THEN [k |-> <<>>, v |-> <<>>, err |-> "expected key=value", p |-> t2.p]
                            ELSE [k |-> t.lit, v |-> t2.lit, err |-> NoErr, p |-> t2.p]])])])

\* scanExtraLoop that pushes a DEFAULT back like any other token
RECURSIVE scanExtraLoop(_, _)
scanExtraLoop_KeepsDefault(q, extras) ==
    Bind([t \in {scanIgnoreWhitespace(q)} |->
            IF t.tok # SEMI_COLON
            THEN Bind([kv \in {scanKV(unscan(t.p))} |->
                         IF kv.err # NoErr THEN [extras |-> EmptyMap, err |-> kv.err, p |-> kv.p]
                         ELSE scanExtraLoop(kv.p, Put(extras, kv.k, kv.v))])
            ELSE [extras |-> extras, err |-> NoErr, p |-> unscan(t.p)]])

\* the for loop of scanExtra
scanExtraLoop(q, extras) ==
    Bind([t \in {scanIgnoreWhitespace(q)} |->
            IF t.tok # SEMI_COLON
            THEN Bind([kv \in {scanKV(IF t.tok # DEFAULT THEN unscan(t.p) ELSE t.p)} |->
                         IF kv.err # NoErr THEN [extras |-> EmptyMap, err |-> kv.err, p |-> kv.p]
                         ELSE scanExtraLoop(kv.p, Put(extras, kv.k, kv.v))])
            ELSE [extras |-> extras, err |-> NoErr, p |-> unscan(t.p)]])

scanExtra(q) == scanExtraLoop(q, EmptyMap)


----------------------------------------------------------------------------
(* parser.go: parse, one statement *)

ParseError(e, q) == [table |-> NewTable, none |-> TRUE, err |-> e, p |-> q]

\* return nil, nil
ParseNothing(q) == [table |-> NewTable, none |-> TRUE, err |-> NoErr, p |-> q]

\* the inner for loop that drops a DROP, LOCK or UNLOCK statement:
\* found tells the break at SEMI_COLON from the return at EOF
RECURSIVE skipStatement(_)
skipStatement(q) ==
    Bind([t \in {scanIgnoreWhitespace(q)} |->
            IF t.tok = SEMI_COLON THEN [found |-> TRUE, p |-> t.p]
            ELSE IF t.tok = EOF THEN [found |-> FALSE, p |-> t.p]
            ELSE skipStatement(t.p)])

\* parseLead without its EOF case
RECURSIVE parseLead(_)
parseLead_EofUnexpected(q) ==
    Bind([t \in {scanIgnoreWhitespace(q)} |->
            IF t.tok = DROP \/ t.tok = LOCK \/ t.tok = UNLOCK
            THEN Bind([s \in {skipStatement(t.p)} |->
                         IF s.found THEN parseLead(s.p)
                         ELSE [create |-> FALSE, err |-> NoErr, p |-> s.p]])
            ELSE IF t.tok = SEMI_COLON \/ t.tok = ANNOTATION THEN parseLead(t.p)
            ELSE IF t.tok = CREATE THEN [create |-> TRUE, err |-> NoErr, p |-> t.p]
            ELSE [create |-> FALSE, err |-> "unexpected", p |-> t.p]])

\* the first for loop of parse: up to CREATE
parseLead(q) ==
    Bind([t \in {scanIgnoreWhitespace(q)} |->
            IF t.tok = DROP \/ t.tok = LOCK \/ t.tok = UNLOCK
            THEN Bind([s \in {skipStatement(t.p)} |->
                         IF s.found THEN parseLead(s.p)
                         ELSE [create |-> FALSE, err |-> NoErr, p |-> s.p]])
            ELSE IF t.tok = SEMI_COLON \/ t.tok = ANNOTATION THEN parseLead(t.p)
            ELSE IF t.tok = CREATE THEN [create |-> TRUE, err |-> NoErr, p |-> t.p]
            ELSE IF t.tok = EOF THEN [create |-> FALSE, err |-> NoErr, p |-> t.p]
            ELSE [create |-> FALSE, err |-> "unexpected", p |-> t.p]])

\* the second for loop of parse goes round once more, with this table
Again(q, table) == [again |-> TRUE, table |-> table, p |-> q]

\* parseItem with the Constraints map keyed by the constraint's own name
parseItem_KeyedByIndex(q, table) ==
    Bind([t \in {scanIgnoreWhitespace(q)} |->
            CASE t.tok = IDENT ->
                    Bind([c \in {scanColumn(unscan(t.p))} |->
                            IF c.err # NoErr THEN ParseError(c.err, c.p)
                            ELSE Again(c.p, [table EXCEPT !.Columns = Put(@, c.column.Name, c.column)])])
              [] t.tok = PRIMARY ->
                    Bind([k \in {scanPrimaryKey(unscan(t.p))} |->
                            IF k.err # NoErr THEN ParseError(k.err, k.p)
                            ELSE Again(k.p, [table EXCEPT !.PrimaryKey = k.key])])
              [] t.tok = UNIQUE ->
                    Bind([k \in {scanKey(t.p)} |->
                            IF k.err # NoErr THEN ParseError(k.err, k.p)
                            ELSE Again(k.p, [table EXCEPT !.UniqueKeys = Put(@, k.index, k.column)])])
              [] t.tok = KEY ->
                    Bind([k \in {scanKey(unscan(t.p))} |->
                            IF k.err # NoErr THEN ParseError(k.err, k.p)
                            ELSE Again(k.p, [table EXCEPT !.Keys = Put(@, k.index, k.column)])])
              [] t.tok = CONSTRAINT ->
                    Bind([c \in {scanConstraint(unscan(t.p))} |->
                            IF c.err # NoErr THEN ParseError(c.err, c.p)
                            ELSE Again(c.p,
                                    [table EXCEPT !.Constraints =
                                        Put(@, c.constraint.Index, c.constraint)])])
              [] t.tok = CLOSE_PAREN ->
                    Bind([t1 \in {scanIgnoreWhitespace(t.p)} |->
                            IF t1.tok # SEMI_COLON
                            THEN Bind([e \in {scanExtra(unscan(t1.p))} |->
                                         IF e.err # NoErr THEN ParseError(e.err, e.p)
                                         ELSE [table |-> [table EXCEPT !.Extras = e.extras],
                                               none |-> FALSE, err |-> NoErr, p |-> e.p]])
                            ELSE [table |-> table, none |-> FALSE, err |-> NoErr, p |-> t1.p]])
              [] t.tok = COMMA -> Again(t.p, table)
              [] t.tok = SEMI_COLON -> [table |-> table, none |-> FALSE, err |-> NoErr, p |-> t.p]
              [] OTHER -> ParseError("expected ident or primary or unique or key or constraint", t.p)])

\* parseItem that keeps the first column definition only
parseItem_FirstColumn(q, table) ==
    Bind([t \in {scanIgnoreWhitespace(q)} |->
            CASE t.tok = IDENT ->
                    Bind([c \in {scanColumn(unscan(t.p))} |->
                            IF c.err # NoErr THEN ParseError(c.err, c.p)
                            ELSE Again(c.p, [table EXCEPT !.Columns =
                                    IF @ = EmptyMap THEN Put(@, c.column.Name, c.column) ELSE @])])
              [] t.tok = PRIMARY ->
                    Bind([k \in {scanPrimaryKey(unscan(t.p))} |->
                            IF k.err # NoErr THEN ParseError(k.err, k.p)
                            ELSE Again(k.p, [table EXCEPT !.PrimaryKey = k.key])])
              [] t.tok = UNIQUE ->
                    Bind([k \in {scanKey(t.p)} |->
                            IF k.err # NoErr THEN ParseError(k.err, k.p)
                            ELSE Again(k.p, [table EXCEPT !.UniqueKeys = Put(@, k.index, k.column)])])
              [] t.tok = KEY ->
                    Bind([k \in {scanKey(unscan(t.p))} |->
                            IF k.err # NoErr THEN ParseError(k.err, k.p)
                            ELSE Again(k.p, [table EXCEPT !.Keys = Put(@, k.index, k.column)])])
              [] t.tok = CONSTRAINT ->
                    Bind([c \in {scanConstraint(unscan(t.p))} |->
                            IF c.err # NoErr THEN ParseError(c.err, c.p)
                            ELSE Again(c.p,
                                    [table EXCEPT !.Constraints =
                                        Put(@, c.constraint.ForeignKey, c.constraint)])])
              [] t.tok = CLOSE_PAREN ->
                    Bind([t1 \in {scanIgnoreWhitespace(t.p)} |->
                            IF t1.tok # SEMI_COLON
                            THEN Bind([e \in {scanExtra(unscan(t1.p))} |->
                                         IF e.err # NoErr THEN ParseError(e.err, e.p)
                                         ELSE [table |-> [table EXCEPT !.Extras = e.extras],
                                               none |-> FALSE, err |-> NoErr, p |-> e.p]])
                            ELSE [table |-> table, none |-> FALSE, err |-> NoErr, p |-> t1.p]])
              [] t.tok = COMMA -> Again(t.p, table)
              [] t.tok = SEMI_COLON -> [table |-> table, none |-> FALSE, err |-> NoErr, p |-> t.p]
              [] OTHER -> ParseError("expected ident or primary or unique or key or constraint", t.p)])

\* the second for loop of parse: the items of the table
parseItem(q, table) ==
    Bind([t \in {scanIgnoreWhitespace(q)} |->
            CASE t.tok = IDENT ->
                    Bind([c \in {scanColumn(unscan(t.p))} |->
                            IF c.err # NoErr THEN ParseError(c.err, c.p)
                            ELSE Again(c.p, [table EXCEPT !.Columns = Put(@, c.column.Name, c.column)])])
              [] t.tok = PRIMARY ->
                    Bind([k \in {scanPrimaryKey(unscan(t.p))} |->
                            IF k.err # NoErr THEN ParseError(k.err, k.p)
                            ELSE Again(k.p, [table EXCEPT !.PrimaryKey = k.key])])
              [] t.tok = UNIQUE ->
                    Bind([k \in {scanKey(t.p)} |->
                            IF k.err # NoErr THEN ParseError(k.err, k.p)
                            ELSE Again(k.p, [table EXCEPT !.UniqueKeys = Put(@, k.index, k.column)])])
              [] t.tok = KEY ->
                    Bind([k \in {scanKey(unscan(t.p))} |->
                            IF k.err # NoErr THEN ParseError(k.err, k.p)
                            ELSE Again(k.p, [table EXCEPT !.Keys = Put(@, k.index, k.column)])])
              [] t.tok = CONSTRAINT ->
                    Bind([c \in {scanConstraint(unscan(t.p))} |->
                            IF c.err # NoErr THEN ParseError(c.err, c.p)
                            ELSE Again(c.p,
                                    [table EXCEPT !.Constraints =
                                        Put(@, c.constraint.ForeignKey, c.constraint)])])
              [] t.tok = CLOSE_PAREN ->
                    Bind([t1 \in {scanIgnoreWhitespace(t.p)} |->
                            IF t1.tok # SEMI_COLON
                            THEN Bind([e \in {scanExtra(unscan(t1.p))} |->
                                         IF e.err # NoErr THEN ParseError(e.err, e.p)
                                         ELSE [table |-> [table EXCEPT !.Extras = e.extras],
                                               none |-> FALSE, err |-> NoErr, p |-> e.p]])
                            ELSE [table |-> table, none |-> FALSE, err |-> NoErr, p |-> t1.p]])
              [] t.tok = COMMA -> Again(t.p, table)
              [] t.tok = SEMI_COLON -> [table |-> table, none |-> FALSE, err |-> NoErr, p |-> t.p]
              [] OTHER -> ParseError("expected ident or primary or unique or key or constraint", t.p)])

\* the second for loop of parse: the items of the table, up to its end
RECURSIVE parseItems(_, _)
parseItemsNext(res) ==
    IF "again" \in DOMAIN res THEN parseItems(res.p, res.table) ELSE res

parseItems(q, table) == parseItemsNext(parseItem(q, table))

parse(q) ==
    Bind([l \in {parseLead(q)} |->
         IF l.err # NoErr THEN ParseError(l.err, l.p)
         ELSE IF ~l.create THEN ParseNothing(l.p)
         ELSE
         Bind([t \in {scanIgnoreWhitespace(l.p)} |->
              IF t.tok # TABLE THEN ParseError("expected CREATE TABLE", t.p)
              ELSE
              Bind([name \in {scanIdent(t.p)} |->
                   IF name.tok # IDENT THEN ParseError("expected CREATE TABLE ident", name.p)
                   ELSE
                   Bind([op \in {scanIgnoreWhitespace(name.p)} |->
                        IF op.tok # OPEN_PAREN THEN ParseError("expected (", op.p)
                        ELSE parseItems(op.p, [NewTable EXCEPT !.Name = name.lit])])])])])

----------------------------------------------------------------------------
(* The inputs.  An input is put together from the pieces below; meta keeps *)
(* how: family, the names of its CREATE TABLE statements in order          *)
(* (creates), and whether it is made only of well-formed statements and    *)
(* comments (wf; the cut inputs are all marked FALSE).                     *)

MaxStmts == 2
MaxItems == 2
MaxClauses == 2
MaxTrivia == 2
MaxScanLen == 4
MaxPieces == 4
MaxOptions == 2
MaxColumns == 3

RECURSIVE Flatten(_)
Flatten(ss) == IF ss = <<>> THEN <<>> ELSE Head(ss) \o Flatten(Tail(ss))

\* the sequences of length at most n over 1..k
Picks(n, k) == UNION {[1..m -> 1..k] : m \in 0..n}

Range(s) == {s[i] : i \in 1..Len(s)}

\* DROP TABLE IF EXISTS `t`;
StmtDrop ==
    <<"D","R","O","P"," ","T","A","B","L","E"," ","I","F"," ","E","X","I","S","T","S"," ","BQ","t","BQ",
      ";">>

\* LOCK TABLES `t` WRITE;
StmtLock ==
    <<"L","O","C","K"," ","T","A","B","L","E","S"," ","BQ","t","BQ"," ","W","R","I","T","E",";">>

\* UNLOCK TABLES;
StmtUnlock ==
    <<"U","N","L","O","C","K"," ","T","A","B","L","E","S",";">>

\* CREATE TABLE t (a int);
StmtCreateT ==
    <<"C","R","E","A","T","E"," ","T","A","B","L","E"," ","t"," ","(","a"," ","i","n","t",")",";">>

\* CREATE TABLE `u` (\n  `id` bigint(20) NOT NULL AUTO_INCREMENT,\n  `b` varchar(20) DEFAULT NULL,\n  PRIMARY KEY (`id`)\n) ENGINE=InnoDB DEFAULT CHARSET=utf8;
StmtCreateU ==
    <<"C","R","E","A","T","E"," ","T","A","B","L","E"," ","BQ","u","BQ"," ","(","\n"," "," ","BQ","i",
      "d","BQ"," ","b","i","g","i","n","t","(","2","0",")"," ","N","O","T"," ","N","U","L","L"," ",
      "A","U","T","O","_","I","N","C","R","E","M","E","N","T",",","\n"," "," ","BQ","b","BQ"," ",
      "v","a","r","c","h","a","r","(","2","0",")"," ","D","E","F","A","U","L","T"," ","N","U","L",
      "L",",","\n"," "," ","P","R","I","M","A","R","Y"," ","K","E","Y"," ","(","BQ","i","d","BQ",
      ")","\n",")"," ","E","N","G","I","N","E","=","I","n","n","o","D","B"," ","D","E","F","A","U",
      "L","T"," ","C","H","A","R","S","E","T","=","u","t","f","8",";">>

\* CREATE TABLE t (c date, KEY k (c));
StmtCreateT2 ==
    <<"C","R","E","A","T","E"," ","T","A","B","L","E"," ","t"," ","(","c"," ","d","a","t","e",","," ",
      "K","E","Y"," ","k"," ","(","c",")",")",";">>

\* CREATE TABLE v (a int NOT NUL);
StmtMisspelled ==
    <<"C","R","E","A","T","E"," ","T","A","B","L","E"," ","v"," ","(","a"," ","i","n","t"," ","N","O",
      "T"," ","N","U","L",")",";">>

\* CREATE TABLE w (a int
StmtTruncated ==
    <<"C","R","E","A","T","E"," ","T","A","B","L","E"," ","w"," ","(","a"," ","i","n","t">>

StmtMenu ==
    <<[text |-> StmtDrop, create |-> FALSE, name |-> <<>>, wf |-> TRUE],
      [text |-> StmtLock, create |-> FALSE, name |-> <<>>, wf |-> TRUE],
      [text |-> StmtUnlock, create |-> FALSE, name |-> <<>>, wf |-> TRUE],
      [text |-> StmtCreateT, create |-> TRUE, name |-> <<"t">>, wf |-> TRUE],
      [text |-> StmtCreateU, create |-> TRUE, name |-> <<"u">>, wf |-> TRUE],
      [text |-> StmtCreateT2, create |-> TRUE, name |-> <<"t">>, wf |-> TRUE],
      [text |-> StmtMisspelled, create |-> TRUE, name |-> <<"v">>, wf |-> FALSE],
      [text |-> StmtTruncated, create |-> TRUE, name |-> <<"w">>, wf |-> FALSE]>>

\* 
SepNone ==
    <<>>

\* \n
SepNewline ==
    <<"\n">>

\* -- c\n
SepLine ==
    <<"-","-"," ","c","\n">>

\* \n/* c */\n-- c\n\n
SepMixed ==
    <<"\n","/","*"," ","c"," ","*","/","\n","-","-"," ","c","\n","\n">>

\* /* c */;\n
SepBlock ==
    <<"/","*"," ","c"," ","*","/",";","\n">>

SepMenu == <<SepNone, SepNewline, SepLine, SepMixed, SepBlock>>

\* sep, then every picked statement followed by sep
StmtsText(pick, sep) ==
    sep \o Flatten([i \in 1..Len(pick) |-> StmtMenu[pick[i]].text \o sep])

CreatesOf(pick) ==
    Flatten([i \in 1..Len(pick) |->
        IF StmtMenu[pick[i]].create THEN <<StmtMenu[pick[i]].name>> ELSE <<>>])

StmtsInputs ==
    {[input |-> StmtsText(pick, SepMenu[s]),
      meta |-> [family |-> "stmts", wf |-> \A i \in 1..Len(pick) : StmtMenu[pick[i]].wf,
                creates |-> CreatesOf(pick), pick |-> pick, sep |-> s]] :
        pick \in Picks(MaxStmts, Len(StmtMenu)), s \in 1..Len(SepMenu)}

\* a int
ItemColumnA ==
    <<"a"," ","i","n","t">>

\* `b` varchar(20) NOT NULL DEFAULT 'x' COMMENT 'c'
ItemColumnB ==
    <<"BQ","b","BQ"," ","v","a","r","c","h","a","r","(","2","0",")"," ","N","O","T"," ","N","U","L","L",
      " ","D","E","F","A","U","L","T"," ","'","x","'"," ","C","O","M","M","E","N","T"," ","'","c",
      "'">>

\* PRIMARY KEY (a)
ItemPrimaryParen ==
    <<"P","R","I","M","A","R","Y"," ","K","E","Y"," ","(","a",")">>

\* PRIMARY KEY a
ItemPrimaryBare ==
    <<"P","R","I","M","A","R","Y"," ","K","E","Y"," ","a">>

\* UNIQUE KEY i (a)
ItemUniqueParen ==
    <<"U","N","I","Q","U","E"," ","K","E","Y"," ","i"," ","(","a",")">>

\* UNIQUE KEY i a
ItemUniqueBare ==
    <<"U","N","I","Q","U","E"," ","K","E","Y"," ","i"," ","a">>

\* KEY j (b)
ItemKeyParen ==
    <<"K","E","Y"," ","j"," ","(","b",")">>

\* KEY j b
ItemKeyBare ==
    <<"K","E","Y"," ","j"," ","b">>

\* CONSTRAINT f FOREIGN KEY (a) REFERENCES r (c)
ItemConstraintFA ==
    <<"C","O","N","S","T","R","A","I","N","T"," ","f"," ","F","O","R","E","I","G","N"," ","K","E","Y",
      " ","(","a",")"," ","R","E","F","E","R","E","N","C","E","S"," ","r"," ","(","c",")">>

\* CONSTRAINT f FOREIGN KEY (b) REFERENCES s (d)
ItemConstraintFB ==
    <<"C","O","N","S","T","R","A","I","N","T"," ","f"," ","F","O","R","E","I","G","N"," ","K","E","Y",
      " ","(","b",")"," ","R","E","F","E","R","E","N","C","E","S"," ","s"," ","(","d",")">>

\* CONSTRAINT g FOREIGN KEY (a) REFERENCES s (d)
ItemConstraintGA ==
    <<"C","O","N","S","T","R","A","I","N","T"," ","g"," ","F","O","R","E","I","G","N"," ","K","E","Y",
      " ","(","a",")"," ","R","E","F","E","R","E","N","C","E","S"," ","s"," ","(","d",")">>

\* `` int
ItemColumnEmpty ==
    <<"BQ","BQ"," ","i","n","t">>

\* CONSTRAINT f FOREIGN KEY (``) REFERENCES `` (``)
ItemConstraintEmpty ==
    <<"C","O","N","S","T","R","A","I","N","T"," ","f"," ","F","O","R","E","I","G","N"," ","K","E","Y",
      " ","(","BQ","BQ",")"," ","R","E","F","E","R","E","N","C","E","S"," ","BQ","BQ"," ","(","BQ",
      "BQ",")">>

ItemMenu ==
    <<[text |-> ItemColumnA, wf |-> TRUE],
      [text |-> ItemColumnB, wf |-> TRUE],
      [text |-> ItemPrimaryParen, wf |-> TRUE],
      [text |-> ItemPrimaryBare, wf |-> TRUE],
      [text |-> ItemUniqueParen, wf |-> TRUE],
      [text |-> ItemUniqueBare, wf |-> TRUE],
      [text |-> ItemKeyParen, wf |-> TRUE],
      [text |-> ItemKeyBare, wf |-> TRUE],
      [text |-> ItemConstraintFA, wf |-> TRUE],
      [text |-> ItemConstraintFB, wf |-> TRUE],
      [text |-> ItemConstraintGA, wf |-> TRUE],
      [text |-> ItemColumnEmpty, wf |-> FALSE],
      [text |-> ItemConstraintEmpty, wf |-> FALSE]>>

\* what the items of ItemMenu say, entry by entry: the kind of item, the name it
\* declares (column, index or constraint), the column it is about, and for a
\* constraint the referenced table and column
ItemMeaning ==
    <<[kind |-> "column", name |-> <<"a">>, column |-> <<>>, table |-> <<>>, ref |-> <<>>],
      [kind |-> "column", name |-> <<"b">>, column |-> <<>>, table |-> <<>>, ref |-> <<>>],
      [kind |-> "primary", name |-> <<>>, column |-> <<"a">>, table |-> <<>>, ref |-> <<>>],
      [kind |-> "primary", name |-> <<>>, column |-> <<"a">>, table |-> <<>>, ref |-> <<>>],
      [kind |-> "unique", name |-> <<"i">>, column |-> <<"a">>, table |-> <<>>, ref |-> <<>>],
      [kind |-> "unique", name |-> <<"i">>, column |-> <<"a">>, table |-> <<>>, ref |-> <<>>],
      [kind |-> "key", name |-> <<"j">>, column |-> <<"b">>, table |-> <<>>, ref |-> <<>>],
      [kind |-> "key", name |-> <<"j">>, column |-> <<"b">>, table |-> <<>>, ref |-> <<>>],
      [kind |-> "constraint", name |-> <<"f">>, column |-> <<"a">>, table |-> <<"r">>, ref |-> <<"c">>],
      [kind |-> "constraint", name |-> <<"f">>, column |-> <<"b">>, table |-> <<"s">>, ref |-> <<"d">>],
      [kind |-> "constraint", name |-> <<"g">>, column |-> <<"a">>, table |-> <<"s">>, ref |-> <<"d">>],
      [kind |-> "column", name |-> <<>>, column |-> <<>>, table |-> <<>>, ref |-> <<>>],
      [kind |-> "constraint", name |-> <<"f">>, column |-> <<>>, table |-> <<>>, ref |-> <<>>]>>

\* );
TailPlain ==
    <<")",";">>

\* ) ENGINE=InnoDB DEFAULT CHARSET=utf8;
TailOptions ==
    <<")"," ","E","N","G","I","N","E","=","I","n","n","o","D","B"," ","D","E","F","A","U","L","T"," ",
      "C","H","A","R","S","E","T","=","u","t","f","8",";">>

\*  ;
TailNoParen ==
    <<" ",";">>

TailMenu ==
    <<[text |-> TailPlain, wf |-> TRUE],
      [text |-> TailOptions, wf |-> TRUE],
      [text |-> TailNoParen, wf |-> FALSE]>>

\* CREATE TABLE t (
ItemsHead ==
    <<"C","R","E","A","T","E"," ","T","A","B","L","E"," ","t"," ","(">>

\* \nCREATE TABLE z (q int);
ItemsNext ==
    <<"\n","C","R","E","A","T","E"," ","T","A","B","L","E"," ","z"," ","(","q"," ","i","n","t",")",";">>

\* CREATE TABLE t (item, item) tail, and a second statement after it
ItemsText(pick, tail) ==
    ItemsHead
    \o Flatten([i \in 1..Len(pick) |-> (IF i > 1 THEN <<",", " ">> ELSE <<>>) \o ItemMenu[pick[i]].text])
    \o TailMenu[tail].text \o ItemsNext

\* every tail after at most one item, the plain tail after longer lists
ItemsTails(pick) == IF Len(pick) <= 1 THEN 1..Len(TailMenu) ELSE {1}

ItemsInputs ==
    UNION {{[input |-> ItemsText(pick, tail),
             meta |-> [family |-> "items",
                       wf |-> Len(pick) > 0 /\ TailMenu[tail].wf
                              /\ \A i \in 1..Len(pick) : ItemMenu[pick[i]].wf,
                       creates |-> << <<"t">>, <<"z">> >>, pick |-> pick, tail |-> tail]] :
            tail \in ItemsTails(pick)} : pick \in Picks(MaxItems, Len(ItemMenu))}

\* a
ColNameBare ==
    <<"a">>

\* `b`
ColNameQuoted ==
    <<"BQ","b","BQ">>

ColNameMenu == <<ColNameBare, ColNameQuoted>>

\* the names that the entries of ColNameMenu declare
ColNameMeaning == <<<<"a">>, <<"b">>>>

\* int
ColTypeInt ==
    <<"i","n","t">>

\* INT(11)
ColTypeIntSize ==
    <<"I","N","T","(","1","1",")">>

\* VarChar(20)
ColTypeVarchar ==
    <<"V","a","r","C","h","a","r","(","2","0",")">>

ColTypeMenu == <<ColTypeInt, ColTypeIntSize, ColTypeVarchar>>

\* the canonical type name and the size that the entries of ColTypeMenu declare
ColTypeMeaning ==
    <<[type |-> "int", size |-> 0], [type |-> "int", size |-> 11], [type |-> "varchar", size |-> 20]>>

\*  NOT NULL
ClauseNotNull ==
    <<" ","N","O","T"," ","N","U","L","L">>

\*  NULL
ClauseNull ==
    <<" ","N","U","L","L">>

\*  DEFAULT NULL
ClauseDefaultNull ==
    <<" ","D","E","F","A","U","L","T"," ","N","U","L","L">>

\*  DEFAULT 'x'
ClauseDefaultX ==
    <<" ","D","E","F","A","U","L","T"," ","'","x","'">>

\*  DEFAULT 'null'
ClauseDefaultStrNull ==
    <<" ","D","E","F","A","U","L","T"," ","'","n","u","l","l","'">>

\*  DEFAULT CURRENT_TIMESTAMP
ClauseDefaultNow ==
    <<" ","D","E","F","A","U","L","T"," ","C","U","R","R","E","N","T","_","T","I","M","E","S","T","A",
      "M","P">>

\*  COMMENT 'c'
ClauseComment ==
    <<" ","C","O","M","M","E","N","T"," ","'","c","'">>

\*  AUTO_INCREMENT
ClauseAutoIncr ==
    <<" ","A","U","T","O","_","I","N","C","R","E","M","E","N","T">>

ClauseMenu == <<ClauseNotNull, ClauseNull, ClauseDefaultNull, ClauseDefaultX, ClauseDefaultStrNull, ClauseDefaultNow, ClauseComment, ClauseAutoIncr>>

\* CREATE TABLE t (
ColumnHead ==
    <<"C","R","E","A","T","E"," ","T","A","B","L","E"," ","t"," ","(">>

\* );
ColumnTail ==
    <<")",";">>

\* CREATE TABLE t (name type clause ... clause);
ColumnText(name, type, pick) ==
    ColumnHead \o ColNameMenu[name] \o <<" ">> \o ColTypeMenu[type]
    \o Flatten([i \in 1..Len(pick) |-> ClauseMenu[pick[i]]]) \o ColumnTail

\* clauses: the picked clauses in order
ColumnInputs ==
    {[input |-> ColumnText(name, type, pick),
      meta |-> [family |-> "column", wf |-> TRUE, creates |-> << <<"t">> >>,
                name |-> name, type |-> type, clauses |-> [i \in 1..Len(pick) |-> ClauseMenu[pick[i]]]]] :
        name \in 1..Len(ColNameMenu), type \in 1..Len(ColTypeMenu),
        pick \in Picks(MaxClauses, Len(ClauseMenu))}

\* the tokens of: CREATE TABLE t ( a int ( 11 ) NOT NULL , PRIMARY KEY ( a ) ) ENGINE = InnoDB ;
TriviaWords ==
    <<<<"C","R","E","A","T","E">>,
      <<"T","A","B","L","E">>,
      <<"t">>,
      <<"(">>,
      <<"a">>,
      <<"i","n","t">>,
      <<"(">>,
      <<"1","1">>,
      <<")">>,
      <<"N","O","T">>,
      <<"N","U","L","L">>,
      <<",">>,
      <<"P","R","I","M","A","R","Y">>,
      <<"K","E","Y">>,
      <<"(">>,
      <<"a">>,
      <<")">>,
      <<")">>,
      <<"E","N","G","I","N","E">>,
      <<"=">>,
      <<"I","n","n","o","D","B">>,
      <<";">>>>

\*  
TriviaSpace ==
    <<" ">>

\* \n
TriviaNewline ==
    <<"\n">>

\* /*c*/
TriviaBlock ==
    <<"/","*","c","*","/">>

\* --c\n
TriviaLine ==
    <<"-","-","c","\n">>

TriviaMenu == <<TriviaSpace, TriviaNewline, TriviaBlock, TriviaLine>>

\* the gap made of the picked comments and blanks
Gap(pick) == Flatten([i \in 1..Len(pick) |-> TriviaMenu[pick[i]]])

\* the statement of TriviaWords with the gap at position at (before word at,
\* after the last word for Len + 1), or at every position for at = 0, and
\* one space between the other words
TriviaText(pick, at) ==
    Flatten([i \in 1..Len(TriviaWords) |->
        (IF at = 0 \/ at = i THEN Gap(pick) ELSE IF i > 1 THEN <<" ">> ELSE <<>>) \o TriviaWords[i]])
    \o (IF at = 0 \/ at = Len(TriviaWords) + 1 THEN Gap(pick) ELSE <<>>)

TriviaInputs ==
    {[input |-> TriviaText(pick, at),
      meta |-> [family |-> "trivia", wf |-> TRUE, creates |-> << <<"t">> >>, pick |-> pick, at |-> at]] :
        pick \in Picks(MaxTrivia, Len(TriviaMenu)) \ {<<>>}, at \in 0..(Len(TriviaWords) + 1)}

\* ENGINE=InnoDB
OptionEngine ==
    <<"E","N","G","I","N","E","=","I","n","n","o","D","B">>

\* DEFAULT CHARSET=utf8
OptionDefaultCharset ==
    <<"D","E","F","A","U","L","T"," ","C","H","A","R","S","E","T","=","u","t","f","8">>

\* AUTO_INCREMENT = 5
OptionAutoIncr ==
    <<"A","U","T","O","_","I","N","C","R","E","M","E","N","T"," ","="," ","5">>

\* charset='latin1'
OptionLower ==
    <<"c","h","a","r","s","e","t","=","'","l","a","t","i","n","1","'">>

\* DEFAULT engine=x
OptionEngineAgain ==
    <<"D","E","F","A","U","L","T"," ","e","n","g","i","n","e","=","x">>

\* ENGINE=MyISAM
OptionEngineOther ==
    <<"E","N","G","I","N","E","=","M","y","I","S","A","M">>

\* ENGINE InnoDB
OptionNoEqual ==
    <<"E","N","G","I","N","E"," ","I","n","n","o","D","B">>

\* key and value: what the option says; ok: it is a key=value pair
OptionMenu ==
    <<[text |-> OptionEngine, key |-> <<"E","N","G","I","N","E">>, value |-> <<"I","n","n","o","D","B">>, ok |-> TRUE],
      [text |-> OptionDefaultCharset, key |-> <<"C","H","A","R","S","E","T">>, value |-> <<"u","t","f","8">>, ok |-> TRUE],
      [text |-> OptionAutoIncr, key |-> <<"A","U","T","O","_","I","N","C","R","E","M","E","N","T">>, value |-> <<"5">>, ok |-> TRUE],
      [text |-> OptionLower, key |-> <<"c","h","a","r","s","e","t">>, value |-> <<"l","a","t","i","n","1">>, ok |-> TRUE],
      [text |-> OptionEngineAgain, key |-> <<"e","n","g","i","n","e">>, value |-> <<"x">>, ok |-> TRUE],
      [text |-> OptionEngineOther, key |-> <<"E","N","G","I","N","E">>, value |-> <<"M","y","I","S","A","M">>, ok |-> TRUE],
      [text |-> OptionNoEqual, key |-> <<>>, value |-> <<>>, ok |-> FALSE]>>

\* CREATE TABLE t (a int)
OptionsHead ==
    <<"C","R","E","A","T","E"," ","T","A","B","L","E"," ","t"," ","(","a"," ","i","n","t",")">>

\* ;\nCREATE TABLE z (q int);
OptionsNext ==
    <<";","\n","C","R","E","A","T","E"," ","T","A","B","L","E"," ","z"," ","(","q"," ","i","n","t",")",
      ";">>

\* CREATE TABLE t (a int) option ... option; and a second statement after it
OptionsText(pick) ==
    OptionsHead \o Flatten([i \in 1..Len(pick) |-> <<" ">> \o OptionMenu[pick[i]].text]) \o OptionsNext

OptionsInputs ==
    {[input |-> OptionsText(pick),
      meta |-> [family |-> "options", wf |-> \A i \in 1..Len(pick) : OptionMenu[pick[i]].ok,
                creates |-> << <<"t">>, <<"z">> >>, pick |-> pick]] :
        pick \in Picks(MaxOptions, Len(OptionMenu))}

\* a int
ReorderA ==
    <<"a"," ","i","n","t">>

\* a varchar(20) NOT NULL
ReorderA2 ==
    <<"a"," ","v","a","r","c","h","a","r","(","2","0",")"," ","N","O","T"," ","N","U","L","L">>

\* `b` date DEFAULT NULL
ReorderB ==
    <<"BQ","b","BQ"," ","d","a","t","e"," ","D","E","F","A","U","L","T"," ","N","U","L","L">>

\* d int NOT
ReorderBad ==
    <<"d"," ","i","n","t"," ","N","O","T">>

\* c int AUTO_INCREMENT
ReorderC ==
    <<"c"," ","i","n","t"," ","A","U","T","O","_","I","N","C","R","E","M","E","N","T">>

\* name: the column the definition declares; ok: the definition is well-formed
ReorderMenu ==
    <<[text |-> ReorderA, name |-> <<"a">>, ok |-> TRUE],
      [text |-> ReorderA2, name |-> <<"a">>, ok |-> TRUE],
      [text |-> ReorderB, name |-> <<"b">>, ok |-> TRUE],
      [text |-> ReorderBad, name |-> <<"d">>, ok |-> FALSE],
      [text |-> ReorderC, name |-> <<"c">>, ok |-> TRUE]>>

\* CREATE TABLE t (
ReorderHead ==
    <<"C","R","E","A","T","E"," ","T","A","B","L","E"," ","t"," ","(">>

\* );
ReorderTail ==
    <<")",";">>

\* CREATE TABLE t (column, ..., column);
ReorderText(pick) ==
    ReorderHead
    \o Flatten([i \in 1..Len(pick) |-> (IF i > 1 THEN <<",", " ">> ELSE <<>>) \o ReorderMenu[pick[i]].text])
    \o ReorderTail

\* round: 1 for the statement as first written, 2 for the same column
\* definitions in another order; first: the order of round 1; before: the
\* Schema that round 1 returned
ReorderInputs ==
    {[input |-> ReorderText(pick),
      meta |-> [family |-> "reorder", wf |-> \A i \in 1..Len(pick) : ReorderMenu[pick[i]].ok,
                creates |-> << <<"t">> >>, pick |-> pick, round |-> 1, first |-> pick,
                before |-> EmptyMap]] :
        pick \in Picks(MaxColumns, Len(ReorderMenu))}

\* the arrangements of the sequence s
Arrangements(s) ==
    {[i \in 1..Len(s) |-> s[f[i]]] :
        f \in {g \in [1..Len(s) -> 1..Len(s)] : \A i, j \in 1..Len(s) : g[i] = g[j] => i = j}}

\* -- c\nDROP TABLE IF EXISTS `t`;\n/* c */;\nCREATE TABLE `t` (\n `a` int(11) NOT NULL DEFAULT '0' COMMENT 'x',\n PRIMARY KEY (`a`),\n KEY `k` (`a`),\n CONSTRAINT `f` FOREIGN KEY (`a`) REFERENCES `r` (`c`)\n) ENGINE=InnoDB;\nLOCK TABLES `t` WRITE;\nCREATE TABLE u (b date);\n
PrefixFull ==
    <<"-","-"," ","c","\n","D","R","O","P"," ","T","A","B","L","E"," ","I","F"," ","E","X","I","S","T",
      "S"," ","BQ","t","BQ",";","\n","/","*"," ","c"," ","*","/",";","\n","C","R","E","A","T","E",
      " ","T","A","B","L","E"," ","BQ","t","BQ"," ","(","\n"," ","BQ","a","BQ"," ","i","n","t","(",
      "1","1",")"," ","N","O","T"," ","N","U","L","L"," ","D","E","F","A","U","L","T"," ","'","0",
      "'"," ","C","O","M","M","E","N","T"," ","'","x","'",",","\n"," ","P","R","I","M","A","R","Y",
      " ","K","E","Y"," ","(","BQ","a","BQ",")",",","\n"," ","K","E","Y"," ","BQ","k","BQ"," ","(",
      "BQ","a","BQ",")",",","\n"," ","C","O","N","S","T","R","A","I","N","T"," ","BQ","f","BQ"," ",
      "F","O","R","E","I","G","N"," ","K","E","Y"," ","(","BQ","a","BQ",")"," ","R","E","F","E","R",
      "E","N","C","E","S"," ","BQ","r","BQ"," ","(","BQ","c","BQ",")","\n",")"," ","E","N","G","I",
      "N","E","=","I","n","n","o","D","B",";","\n","L","O","C","K"," ","T","A","B","L","E","S"," ",
      "BQ","t","BQ"," ","W","R","I","T","E",";","\n","C","R","E","A","T","E"," ","T","A","B","L",
      "E"," ","u"," ","(","b"," ","d","a","t","e",")",";","\n">>

\* every prefix of PrefixFull: the input cut off after cut characters
PrefixInputs ==
    {[input |-> SubSeq(PrefixFull, 1, cut),
      meta |-> [family |-> "prefix", wf |-> FALSE, creates |-> << <<"t">>, <<"u">> >>, cut |-> cut]] :
        cut \in 0..Len(PrefixFull)}

\* the characters the Scanner is tried on, in every arrangement
ScanAlphabet == {"/", "*", "-", "\n", " ", "a", "1", "'", "BQ", "NUL", ";"}

ScanInputs == UNION {[1..n -> ScanAlphabet] : n \in 0..MaxScanLen}

\*  
PieceSpace ==
    <<" ">>

\* \n
PieceNewline ==
    <<"\n">>

\* /*c*/
PieceBlock ==
    <<"/","*","c","*","/">>

\* --c\n
PieceLine ==
    <<"-","-","c","\n">>

\* a
PieceIdent ==
    <<"a">>

\* ;
PieceSemi ==
    <<";">>

\* '
PieceQuote ==
    <<"'">>

PieceMenu == <<PieceSpace, PieceNewline, PieceBlock, PieceLine, PieceIdent, PieceSemi, PieceQuote>>

PieceInputs ==
    {Flatten([i \in 1..Len(pick) |-> PieceMenu[pick[i]]]) : pick \in Picks(MaxPieces, Len(PieceMenu))}


----------------------------------------------------------------------------
(* parser.go: Parse.  One step is one iteration of its for loop: a call of *)
(* parse and what Parse does with the result.                              *)

\* table returned: schema[table.Name] = table
ParseTable ==
    /\ status = "running"
    /\ \E res \in {parse(p)} :
       /\ ~res.p.hang /\ res.err = NoErr /\ ~res.none
       /\ schema' = Put(schema, res.table.Name, res.table)
       /\ p' = res.p
    /\ iter' = iter + 1
    /\ UNCHANGED <<input, err, status, ret, meta>>

\* ParseFail that goes on with the next statement
ParseFail_KeepsGoing ==
    /\ status = "running"
    /\ \E res \in {parse(p)} :
       /\ ~res.p.hang /\ res.err # NoErr
       /\ err' = res.err
       /\ p' = res.p
    /\ UNCHANGED <<input, schema, iter, status, ret, meta>>

\* err != nil: return schema, err
ParseFail ==
    /\ status = "running"
    /\ \E res \in {parse(p)} :
       /\ ~res.p.hang /\ res.err # NoErr
       /\ err' = res.err
       /\ p' = res.p
    /\ status' = "returned"
    /\ UNCHANGED <<input, schema, iter, ret, meta>>

\* table == nil: break, return schema, nil
ParseDone ==
    /\ status = "running"
    /\ \E res \in {parse(p)} :
       /\ ~res.p.hang /\ res.err = NoErr /\ res.none
       /\ p' = res.p
    /\ status' = "returned"
    /\ UNCHANGED <<input, schema, err, iter, ret, meta>>

\* a Scan call inside parse does not return, so neither does Parse
ParseHang ==
    /\ status = "running"
    /\ \E res \in {parse(p)} :
       /\ res.p.hang
       /\ p' = res.p
    /\ status' = "hang"
    /\ UNCHANGED <<input, schema, err, iter, ret, meta>>

\* ret before any call
NoToken == [tok |-> -1, lit |-> <<>>, from |-> 0, hang |-> FALSE]

Init ==
    /\ \/ \E i \in StmtsInputs : input = i.input /\ meta = i.meta
       \/ \E i \in ItemsInputs : input = i.input /\ meta = i.meta
       \/ \E i \in ColumnInputs : input = i.input /\ meta = i.meta
       \/ \E i \in TriviaInputs : input = i.input /\ meta = i.meta
       \/ \E i \in PrefixInputs : input = i.input /\ meta = i.meta
       \/ \E i \in OptionsInputs : input = i.input /\ meta = i.meta
    /\ p = NewParser
    /\ schema = EmptyMap
    /\ err = NoErr
    /\ iter = 0
    /\ status = "running"
    /\ ret = NoToken

Next == ParseTable \/ ParseFail \/ ParseDone \/ ParseHang

Spec == Init /\ [][Next]_vars

\* Parse is one sequential call: it keeps running until it returns
FairSpec == Spec /\ WF_vars(Next)

----------------------------------------------------------------------------
(* The Scanner alone: Scan called again and again on one reader, as        *)
(* Test_Lexer does, up to the EOF that the exhausted reader gives.         *)

\* a Scan call that returns; ret.from is where the reader stood before it
ScanReturns ==
    /\ status = "running"
    /\ \E s \in {Scan(p.r)} :
       /\ ~s.hang
       /\ p' = [p EXCEPT !.r = s.r]
       /\ ret' = [tok |-> s.tok, lit |-> s.lit, from |-> p.r.pos, hang |-> FALSE]
       /\ status' = IF s.tok = EOF /\ s.r.pos = Len(input) THEN "returned" ELSE "running"
    /\ UNCHANGED <<input, schema, err, iter, meta>>

\* a Scan call that does not return
ScanHangs ==
    /\ status = "running"
    /\ \E s \in {Scan(p.r)} :
       /\ s.hang
       /\ p' = [p EXCEPT !.r = s.r]
       /\ ret' = [tok |-> ILLEGAL, lit |-> <<>>, from |-> p.r.pos, hang |-> TRUE]
    /\ status' = "hang"
    /\ UNCHANGED <<input, schema, err, iter, meta>>

InitScan ==
    /\ input \in ScanInputs
    /\ meta = [family |-> "scan"]
    /\ p = NewParser
    /\ schema = EmptyMap
    /\ err = NoErr
    /\ iter = 0
    /\ status = "running"
    /\ ret = NoToken

NextScan == ScanReturns \/ ScanHangs

SpecScan == InitScan /\ [][NextScan]_vars

FairSpecScan == SpecScan /\ WF_vars(NextScan)

----------------------------------------------------------------------------
(* The Parser's token primitive alone: scanIgnoreWhitespace called again   *)
(* and again, as the grammar rules do, up to EOF.                          *)

Significant ==
    /\ status = "running"
    /\ \E t \in {scanIgnoreWhitespace(p)} :
       /\ ~t.p.hang
       /\ p' = t.p
       /\ ret' = [tok |-> t.tok, lit |-> t.lit, from |-> p.r.pos, hang |-> FALSE]
       /\ status' = IF t.tok = EOF THEN "returned" ELSE "running"
    /\ UNCHANGED <<input, schema, err, iter, meta>>

SignificantHangs ==
    /\ status = "running"
    /\ \E t \in {scanIgnoreWhitespace(p)} :
       /\ t.p.hang
       /\ p' = t.p
       /\ ret' = [tok |-> ILLEGAL, lit |-> <<>>, from |-> p.r.pos, hang |-> TRUE]
    /\ status' = "hang"
    /\ UNCHANGED <<input, schema, err, iter, meta>>

InitSignificant ==
    /\ input \in PieceInputs
    /\ meta = [family |-> "pieces"]
    /\ p = NewParser
    /\ schema = EmptyMap
    /\ err = NoErr
    /\ iter = 0
    /\ status = "running"
    /\ ret = NoToken

NextSignificant == Significant \/ SignificantHangs

SpecSignificant == InitSignificant /\ [][NextSignificant]_vars

----------------------------------------------------------------------------
(* One statement parsed twice: as written, and then, by a new Parser on a  *)
(* new reader, with its column definitions in another order.               *)

\* after an accepted statement: NewParser on the same statement rearranged
Reorder ==
    /\ status = "returned" /\ err = NoErr
    /\ meta.round = 1
    /\ \E pick \in Arrangements(meta.pick) :
          /\ input' = ReorderText(pick)
          /\ meta' = [meta EXCEPT !.round = 2, !.pick = pick, !.before = schema]
    /\ p' = NewParser
    /\ schema' = EmptyMap
    /\ iter' = 0
    /\ status' = "running"
    /\ UNCHANGED <<err, ret>>

InitReorder ==
    /\ \E i \in ReorderInputs : input = i.input /\ meta = i.meta
    /\ p = NewParser
    /\ schema = EmptyMap
    /\ err = NoErr
    /\ iter = 0
    /\ status = "running"
    /\ ret = NoToken

NextReorder == ParseTable \/ ParseFail \/ ParseDone \/ Reorder

SpecReorder == InitReorder /\ [][NextReorder]_vars

----------------------------------------------------------------------------
(* Two Parse calls over the same input, each on its own Parser (its own    *)
(* Scanner, pushback buffer and Schema).  One call is the running one; the *)
(* other is kept aside and resumed by Switch, so the two calls run one     *)
(* after the other or interleaved statement by statement.  Type is a       *)
(* definition: nothing assigns to it after init.                           *)

\* what one Parse call owns
Context == [p |-> p, schema |-> schema, err |-> err, iter |-> iter, status |-> status]

\* Switch whose two calls read through one Scanner
Switch_SharedScanner ==
    /\ meta.other.status = "running"
    /\ p' = [meta.other.p EXCEPT !.r = p.r]
    /\ schema' = meta.other.schema
    /\ err' = meta.other.err
    /\ iter' = meta.other.iter
    /\ status' = meta.other.status
    /\ meta' = [meta EXCEPT !.other = Context,
                            !.interleaved = @ \/ (status = "running" /\ iter > 0)]
    /\ UNCHANGED <<input, ret>>

\* the scheduler leaves one call and resumes the other
Switch ==
    /\ meta.other.status = "running"
    /\ p' = meta.other.p
    /\ schema' = meta.other.schema
    /\ err' = meta.other.err
    /\ iter' = meta.other.iter
    /\ status' = meta.other.status
    /\ meta' = [meta EXCEPT !.other = Context,
                            !.interleaved = @ \/ (status = "running" /\ iter > 0)]
    /\ UNCHANGED <<input, ret>>

TwoInputs == StmtsInputs \cup OptionsInputs \cup PrefixInputs

InitTwo ==
    /\ p = NewParser
    /\ schema = EmptyMap
    /\ err = NoErr
    /\ iter = 0
    /\ status = "running"
    /\ ret = NoToken
    /\ \E i \in TwoInputs :
          /\ input = i.input
          /\ meta = [family |-> "two", wf |-> i.meta.wf, creates |-> i.meta.creates,
                     other |-> Context, interleaved |-> FALSE]

NextTwo == ParseTable \/ ParseFail \/ ParseDone \/ ParseHang \/ Switch

SpecTwo == InitTwo /\ [][NextTwo]_vars

----------------------------------------------------------------------------
(* Properties *)

\* C1: on an input made only of well-formed statements and comments, in any
\* arrangement, Parse returns a nil error and the Schema holds an entry for
\* every CREATE TABLE statement of the input
C1_WellFormedParses ==
    (meta.wf /\ status # "running") =>
        /\ status = "returned"
        /\ err = NoErr
        /\ DOMAIN schema = Range(meta.creates)

\* C2: scanIgnoreWhitespace never returns a WS or ANNOTATION token, whatever
\* the number and order of the WS and ANNOTATION tokens in a row
C2_OnlySignificant == ret.tok # WS /\ ret.tok # ANNOTATION

\* C3: a Scan call that starts a block comment, a quoted string or a quoted
\* identifier returns, also when the input ends before the terminator
C3_QuotedScanReturns == ret.hang => input[ret.from + 1] \notin {"'", "BQ", "/"}

\* C4: when Parse returns an error it has stopped at the first rejected
\* statement: the Schema holds exactly the tables of the CREATE TABLE
\* statements completed before it, unchanged by the failing call, and no
\* statement after it is parsed
C4_FirstErrorStops ==
    /\ [](err # NoErr =>
            /\ status = "returned"
            /\ iter <= Len(meta.creates)
            /\ DOMAIN schema = {meta.creates[i] : i \in 1..iter})
    /\ [][err' # NoErr => schema' = schema]_vars

\* a rejected statement after a completed one, whose table is not in the Schema
C4_Witness ==
    /\ status = "returned" /\ err # NoErr
    /\ iter >= 1 /\ iter < Len(meta.creates)
    /\ meta.creates[iter + 1] \notin DOMAIN schema

\* C5: Nullable is true unless a NOT NULL clause appeared in the column
\* definition, and it is true whenever the stored Default is "null"
C5_Nullable ==
    \A t \in DOMAIN schema : \A c \in DOMAIN schema[t].Columns :
        LET col == schema[t].Columns[c] IN
        /\ (meta.family = "column" /\ ClauseNotNull \notin Range(meta.clauses)) => col.Nullable
        /\ col.Default = StringDefault(<<"n","u","l","l">>) => col.Nullable

\* C6: PRIMARY KEY (col) and PRIMARY KEY col both make the parse succeed with
\* PrimaryKey = col, the item and the statement after the clause are parsed,
\* and a table without the clause has PrimaryKey = ""
C6_PrimaryKeyForms ==
    (/\ meta.family = "items"
     /\ status = "returned"
     /\ TailMenu[meta.tail].wf
     /\ \A i \in 1..Len(meta.pick) :
            ItemMenu[meta.pick[i]].text \in {ItemColumnA, ItemPrimaryParen, ItemPrimaryBare})
    => /\ err = NoErr
       /\ DOMAIN schema = {<<"t">>, <<"z">>}
       /\ schema[<<"t">>].PrimaryKey =
            IF \E i \in 1..Len(meta.pick) :
                   ItemMenu[meta.pick[i]].text \in {ItemPrimaryParen, ItemPrimaryBare}
            THEN <<"a">> ELSE <<>>
       /\ (\E i \in 1..Len(meta.pick) : ItemMenu[meta.pick[i]].text = ItemColumnA)
            => <<"a">> \in DOMAIN schema[<<"t">>].Columns

\* C7: a Scan call that reads "/" and "*" consumes up to and including the
\* first "*/" after the opening "/*" and returns ANNOTATION with an empty
\* literal; without such a "*/" it returns ILLEGAL
C7_BlockComment ==
    (/\ ret # NoToken
     /\ ret.from + 2 <= Len(input)
     /\ input[ret.from + 1] = "/"
     /\ input[ret.from + 2] = "*")
    => LET ends == {e \in (ret.from + 3)..(Len(input) - 1) : input[e] = "*" /\ input[e + 1] = "/"} IN
       IF ends = {}
       THEN ~ret.hang /\ ret.tok = ILLEGAL
       ELSE /\ ~ret.hang /\ ret.tok = ANNOTATION /\ ret.lit = <<>>
            /\ p.r.pos = (CHOOSE e \in ends : \A f \in ends : e <= f) + 1

\* C8: a SEMI_COLON before the closing parenthesis of the item list makes
\* Parse return an error and adds no table
C8_NoTableWithoutCloseParen ==
    (meta.family = "items" /\ TailMenu[meta.tail].text = TailNoParen) =>
        /\ <<"t">> \notin DOMAIN schema
        /\ status = "returned" => err # NoErr

\* C9: no Columns map has an entry with an empty key or Name, and every
\* stored Constraint has non-empty ForeignKey, TableName and ColumnName
C9_NoEmptyNames ==
    \A t \in DOMAIN schema :
        /\ \A c \in DOMAIN schema[t].Columns : c # <<>> /\ schema[t].Columns[c].Name # <<>>
        /\ \A c \in DOMAIN schema[t].Constraints :
              /\ schema[t].Constraints[c].ForeignKey # <<>>
              /\ schema[t].Constraints[c].TableName # <<>>
              /\ schema[t].Constraints[c].ColumnName # <<>>

\* where the input ends, for the grammar that starts at q in the given mode:
\* "top" between statements, "skip" inside a DROP, LOCK or UNLOCK statement,
\* "create" after a CREATE and before the next SEMI_COLON; "other" when a
\* CREATE statement is terminated or a token that starts no statement comes first
RECURSIVE EndOfInput(_, _)
EndOfInput(q, mode) ==
    Bind([t \in {scanIgnoreWhitespace(q)} |->
            IF t.p.hang THEN "hang"
            ELSE IF t.tok = EOF THEN mode
            ELSE IF mode = "top"
                 THEN IF t.tok \in {DROP, LOCK, UNLOCK} THEN EndOfInput(t.p, "skip")
                      ELSE IF t.tok \in {SEMI_COLON, ANNOTATION} THEN EndOfInput(t.p, "top")
                      ELSE IF t.tok = CREATE THEN EndOfInput(t.p, "create")
                      ELSE "other"
            ELSE IF mode = "skip"
                 THEN EndOfInput(t.p, IF t.tok = SEMI_COLON THEN "top" ELSE "skip")
            ELSE IF t.tok = SEMI_COLON THEN "other" ELSE EndOfInput(t.p, "create")])

\* C10: EOF after a CREATE keyword and before the statement's SEMI_COLON makes
\* Parse return an error; EOF between statements or while skipping a DROP,
\* LOCK or UNLOCK statement makes it return nil with the tables parsed so far
C10_EndOfInput ==
    [][status = "running" =>
         \A end \in {EndOfInput(p, "top")} :
            /\ end = "create" => (status' = "returned" /\ err' # NoErr /\ schema' = schema)
            /\ end \in {"top", "skip"} =>
                    (status' = "returned" /\ err' = NoErr /\ schema' = schema)]_vars

\* EOF inside the second statement: an error, and the first table is there
C10_Witness ==
    /\ status = "returned" /\ err # NoErr
    /\ p.buf.tok = EOF
    /\ iter = 1 /\ DOMAIN schema = {<<"t">>}

\* the Constraints map that the constraint clauses among the picked items
\* describe: one entry per referencing column, from the last clause on it
ConstraintsOf(pick) ==
    LET cs == {i \in 1..Len(pick) : ItemMeaning[pick[i]].kind = "constraint"}
        last(c) == CHOOSE i \in cs : /\ ItemMeaning[pick[i]].column = c
                                     /\ \A j \in cs : ItemMeaning[pick[j]].column = c => j <= i
    IN [c \in {ItemMeaning[pick[i]].column : i \in cs} |->
            [Index |-> ItemMeaning[pick[last(c)]].name,
             ForeignKey |-> c,
             TableName |-> ItemMeaning[pick[last(c)]].table,
             ColumnName |-> ItemMeaning[pick[last(c)]].ref]]

\* C11: an accepted CONSTRAINT n FOREIGN KEY (c) REFERENCES t (rc) is stored as
\* Constraint{n, c, t, rc} under key c: clauses that share n but not c are all
\* present, and of clauses with the same c the last one remains
C11_ConstraintsByColumn ==
    (meta.family = "items" /\ status = "returned" /\ err = NoErr) =>
        /\ <<"t">> \in DOMAIN schema
        /\ schema[<<"t">>].Constraints = ConstraintsOf(meta.pick)

\* two accepted clauses with one name and two referencing columns, both stored
C11_Witness ==
    /\ meta.family = "items" /\ status = "returned" /\ err = NoErr
    /\ \E i, j \in 1..Len(meta.pick) :
          /\ ItemMeaning[meta.pick[i]].kind = "constraint"
          /\ ItemMeaning[meta.pick[j]].kind = "constraint"
          /\ ItemMeaning[meta.pick[i]].name = ItemMeaning[meta.pick[j]].name
          /\ ItemMeaning[meta.pick[i]].column # ItemMeaning[meta.pick[j]].column
          /\ {ItemMeaning[meta.pick[i]].column, ItemMeaning[meta.pick[j]].column}
                \subseteq DOMAIN schema[<<"t">>].Constraints

\* the Extras map that the picked options describe: the value of the last
\* option with each key
ExtrasOf(pick) ==
    [k \in {OptionMenu[pick[i]].key : i \in 1..Len(pick)} |->
        OptionMenu[pick[CHOOSE i \in 1..Len(pick) :
                            /\ OptionMenu[pick[i]].key = k
                            /\ \A j \in 1..Len(pick) : OptionMenu[pick[j]].key = k => j <= i]].value]

DefaultOf(clauses) ==
    LET ds == {i \in 1..Len(clauses) :
                  clauses[i] \in {ClauseDefaultNull, ClauseDefaultX, ClauseDefaultStrNull, ClauseDefaultNow}}
        d == clauses[CHOOSE i \in ds : \A j \in ds : j <= i]
    IN IF ds = {} THEN NilDefault
       ELSE IF d = ClauseDefaultX THEN StringDefault(<<"x">>)
       ELSE IF d = ClauseDefaultNow
            THEN StringDefault(<<"c","u","r","r","e","n","t","_","t","i","m","e","s","t","a","m","p">>)
       ELSE StringDefault(<<"n","u","l","l">>)

C14_LineComment ==
    (/\ ret # NoToken
     /\ ret.from + 2 <= Len(input)
     /\ input[ret.from + 1] = "-"
     /\ input[ret.from + 2] = "-")
    => LET nls == {e \in (ret.from + 3)..Len(input) : input[e] = "\n"} IN
       IF nls = {}
       THEN ret.hang
       ELSE /\ ~ret.hang /\ ret.tok = ANNOTATION /\ ret.lit = <<>>
            /\ p.r.pos = CHOOSE e \in nls : \A f \in nls : e <= f

\* a "--" comment that the end of the input cuts short
C14_Witness ==
    /\ ret.hang
    /\ ret.from + 3 <= Len(input)
    /\ input[ret.from + 1] = "-" /\ input[ret.from + 2] = "-"

\* C15 as stated: two accepted CREATE TABLE statements that differ only in
\* the order of their column definitions give equal Columns maps
C15_OrderIrrelevant ==
    (meta.family = "reorder" /\ meta.round = 2 /\ status = "returned" /\ err = NoErr) =>
        /\ DOMAIN schema = DOMAIN meta.before
        /\ \A t \in DOMAIN schema : schema[t].Columns = meta.before[t].Columns

\* C15 amended: two accepted CREATE TABLE statements whose column names are
\* pairwise distinct and that differ only in the order of their column
\* definitions give equal Columns maps
C15_OrderIrrelevantDistinctNames ==
    (/\ meta.family = "reorder" /\ meta.round = 2 /\ status = "returned" /\ err = NoErr
     /\ \A i, j \in 1..Len(meta.pick) :
            ReorderMenu[meta.pick[i]].name = ReorderMenu[meta.pick[j]].name => i = j)
    => /\ DOMAIN schema = DOMAIN meta.before
       /\ \A t \in DOMAIN schema : schema[t].Columns = meta.before[t].Columns

\* two columns of different names parsed in both orders
C15_Witness ==
    /\ meta.family = "reorder" /\ meta.round = 2 /\ status = "returned" /\ err = NoErr
    /\ Len(meta.pick) >= 2 /\ meta.pick # meta.first
    /\ \A i, j \in 1..Len(meta.pick) :
            ReorderMenu[meta.pick[i]].name = ReorderMenu[meta.pick[j]].name => i = j
    /\ <<"t">> \in DOMAIN schema
    /\ DOMAIN schema[<<"t">>].Columns = {ReorderMenu[meta.pick[i]].name : i \in 1..Len(meta.pick)}

----------------------------------------------------------------------------
----------------------------------------------------------------------------
\* C17: the pushback buffer is used within its depth of one: in every
\* execution of Parse, unscan is never called while a token is already pushed
\* back, and the scan call after an unscan returns the pair that the latest
\* scan call returned
C17_PushbackDepthOne == ~p.hist.twice /\ ~p.hist.stale

\* an accepted input whose parsing replayed a pushed-back token
C17_Witness ==
    /\ status = "returned" /\ err = NoErr
    /\ schema # EmptyMap
    /\ p.hist.replayed
    /\ p.buf.n = 0

----------------------------------------------------------------------------
\* C18: Scan returns one WS token for each maximal run of spaces, tabs and
\* newlines, the whole run being its literal: the character that ended the
\* run is not consumed, and two WS tokens are never adjacent in the sequence
\* of tokens
C18_WhitespaceRun ==
    /\ [](ret.tok = WS =>
            /\ ret.lit = SubSeq(input, ret.from + 1, ret.from + Len(ret.lit))
            /\ \A i \in 1..Len(ret.lit) : isWhitespace(ret.lit[i])
            /\ p.r.pos = ret.from + Len(ret.lit)
            /\ p.r.pos < Len(input) => ~isWhitespace(input[p.r.pos + 1]))
    /\ [][~(ret.tok = WS /\ ret'.tok = WS)]_vars

----------------------------------------------------------------------------
\* C19: a Scan call that reads a `/` not followed by `*`, or a `-` not
\* followed by `-`, returns ILLEGAL with that one character as literal and
\* advances the cursor by exactly one character
C19_LoneSlashOrDash ==
    (/\ ret.tok # NoToken.tok
     /\ ret.from < Len(input)
     /\ \/ /\ input[ret.from + 1] = "/"
           /\ ~(ret.from + 2 <= Len(input) /\ input[ret.from + 2] = "*")
        \/ /\ input[ret.from + 1] = "-"
           /\ ~(ret.from + 2 <= Len(input) /\ input[ret.from + 2] = "-"))
        => /\ ret.tok = ILLEGAL
           /\ ret.lit = <<input[ret.from + 1]>>
           /\ p.r.pos = ret.from + 1

----------------------------------------------------------------------------
\* the map that the key clauses of one kind among the picked items describe:
\* index name -> column, from the last clause with that index name
KeysOf(pick, kind) ==
    LET ks == {i \in 1..Len(pick) : ItemMeaning[pick[i]].kind = kind}
        last(n) == CHOOSE i \in ks : /\ ItemMeaning[pick[i]].name = n
                                     /\ \A j \in ks : ItemMeaning[pick[j]].name = n => j <= i
    IN [n \in {ItemMeaning[pick[i]].name : i \in ks} |-> ItemMeaning[pick[last(n)]].column]

\* the picked items are columns and key clauses only, all well formed
KeysAndColumns(pick) ==
    /\ Len(pick) > 0
    /\ \A i \in 1..Len(pick) : /\ ItemMenu[pick[i]].wf
                               /\ ItemMeaning[pick[i]].kind \in {"column", "unique", "key"}
    /\ \E i \in 1..Len(pick) : ItemMeaning[pick[i]].kind \in {"unique", "key"}

\* C20: UNIQUE KEY idx (col) and UNIQUE KEY idx col each add idx -> col to
\* UniqueKeys and nothing to Keys; KEY idx (col) and KEY idx col each add
\* idx -> col to Keys and nothing to UniqueKeys; the clause is accepted in
\* both forms and the item after it is parsed normally
C20_KeyClauses ==
    (meta.family = "items" /\ status # "running") =>
        /\ (KeysAndColumns(meta.pick) /\ TailMenu[meta.tail].wf)
              => (status = "returned" /\ err = NoErr)
        /\ (status = "returned" /\ err = NoErr) =>
              /\ <<"t">> \in DOMAIN schema
              /\ schema[<<"t">>].UniqueKeys = KeysOf(meta.pick, "unique")
              /\ schema[<<"t">>].Keys = KeysOf(meta.pick, "key")
              /\ DOMAIN schema[<<"t">>].Columns =
                    {ItemMeaning[meta.pick[i]].name :
                        i \in {j \in 1..Len(meta.pick) : ItemMeaning[meta.pick[j]].kind = "column"}}

\* an accepted table with a bare-form key clause followed by a column
C20_Witness ==
    /\ meta.family = "items" /\ status = "returned" /\ err = NoErr
    /\ Len(meta.pick) = 2
    /\ ItemMenu[meta.pick[1]].text \in {ItemUniqueBare, ItemKeyBare}
    /\ ItemMeaning[meta.pick[2]].kind = "column"
    /\ ItemMeaning[meta.pick[2]].name \in DOMAIN schema[<<"t">>].Columns
    /\ DOMAIN schema[<<"t">>].UniqueKeys \cup DOMAIN schema[<<"t">>].Keys # {}

----------------------------------------------------------------------------
\* C21: Scan returns EOF only when the stream is exhausted, that is from a
\* call that started at the end of the input, and once Scan has returned EOF
\* every later Scan call returns EOF again; this for every input, also one
\* with the character U+0000 before its end
C21_EofOnlyAtEnd ==
    /\ [](ret.tok = EOF => ret.from = Len(input))
    /\ [][ret.tok = EOF => ret'.tok = EOF]_vars
====
